---------------------------- MODULE Spec2Model ----------------------------
(***************************************************************************)
(* Model of the signalling relay of src/src/index.ts: the client registry  *)
(* `clients`, the transport adapter's room table, the per-connection       *)
(* closure variable `roomId`, the connection counter, and the handlers of  *)
(* the join, id, leave, signal and disconnect events.                      *)
(***************************************************************************)
EXTENDS Integers, Sequences, FiniteSets, TLC

(***************************************************************************)
(* Bounds and input universes.                                             *)
(***************************************************************************)
\* Largest client id a client sends; ids are 1..MaxId.
MaxId == 2

\* Number of transport connections (socket ids) the model follows.
NumConns == 2

ConnNames == <<"A", "B", "C", "D", "E">>

\* Socket ids assigned by the transport layer.
Conn == {ConnNames[i] : i \in 1..NumConns}

Ids == 1..MaxId

\* The socket whose registrations the history variable follows.
Tracked == {ConnNames[1]}

HostNames == {"host1"}

ServerNames == {"srv1"}

RoomNames == {"room1", "room2"}

(***************************************************************************)
(* JavaScript values, tagged with what `typeof` answers.                   *)
(***************************************************************************)
JsStr(s) == [t |-> "string", s |-> s]

JsNum(n) == [t |-> "number", n |-> n]

JsUndefined == [t |-> "undefined"]

JsNull == [t |-> "object", null |-> TRUE]

typeof(v) == v.t

VARIABLES
    status,           \* per socket id: "new" (no handshake yet), "rejected",
                      \* "connected" or "disconnected"
    roomId,           \* the closure variable roomId of each connection (line 92)
    clients,          \* the Map clients: socket id -> Client (line 33)
    rooms,            \* io.sockets.adapter.rooms: room name -> set of socket ids
    connectionCount,  \* line 47
    sent,             \* the events the running handler has emitted, not yet flushed
    last,             \* the handler run in progress: event, socket, arguments
    registered,       \* history: the clientId a socket registered last (0: none)
    joined            \* history: the id each socket gave when it joined each of its rooms

vars == <<status, roomId, clients, rooms, connectionCount, sent, last, registered, joined>>

(***************************************************************************)
(* Inputs the clients send.                                                *)
(***************************************************************************)
\* getRoomId, lines 67-69.
getRoomId(hostName, server, room) == hostName \o "-" \o server \o "-" \o room

RoomIds == {getRoomId(h, s, r) : h \in HostNames, s \in ServerNames, r \in RoomNames}

\* Arguments of a join event: the well-typed ones, and one ill-typed tuple
\* for each argument position.
JoinInputs ==
    {<<JsStr(h), JsStr(s), JsStr(r), JsNum(n)>> :
        h \in HostNames, s \in ServerNames, r \in RoomNames, n \in Ids}
    \cup {<<JsUndefined, JsStr("srv1"), JsStr("room1"), JsNum(1)>>,
          <<JsStr("host1"), JsNum(1), JsStr("room1"), JsNum(1)>>,
          <<JsStr("host1"), JsStr("srv1"), JsNull, JsNum(1)>>,
          <<JsStr("host1"), JsStr("srv1"), JsStr("room1"), JsStr("1")>>}

\* Argument of an id event.
IdInputs == {JsNum(n) : n \in Ids} \cup {JsStr("1")}

\* Destinations a signal names: socket ids, derived room ids, an unknown string.
SignalTargets == Conn \cup RoomIds \cup {"nonexistent"}

JsSignal(data, to) == [t |-> "object", data |-> data, to |-> to]

\* Argument of a signal event: well-formed records (one of them carrying a
\* from field of its own), and ill-formed payloads (not an object, empty
\* data, empty to, non-string to, null).
SignalInputs ==
    {JsSignal(JsStr("x"), JsStr(to)) : to \in SignalTargets}
    \cup {[t |-> "object", data |-> JsStr("y"), to |-> JsStr("A"), from |-> JsStr("B")]}
    \cup {JsStr("x"),
          JsSignal(JsStr(""), JsStr("A")),
          JsSignal(JsStr("x"), JsStr("")),
          JsSignal(JsStr("x"), JsNum(1)),
          JsNull}

\* JavaScript truthiness of the values above (!v is ~Truthy(v)).
Truthy(v) ==
    CASE v.t = "string" -> v.s # ""
      [] v.t = "number" -> v.n # 0
      [] v.t = "undefined" -> FALSE
      [] OTHER -> ~("null" \in DOMAIN v)

(***************************************************************************)
(* The transport's room table (io.sockets.adapter.rooms): a room exists    *)
(* while it has members.                                                   *)
(***************************************************************************)
\* io.sockets.adapter.rooms[room].sockets, or none when the room is absent.
Members(rs, room) == IF room \in DOMAIN rs THEN rs[room] ELSE {}

\* socket.join(room), line 115.
AdapterAdd(rs, id, room) ==
    [k \in DOMAIN rs \cup {room} |-> IF k = room THEN Members(rs, room) \cup {id} ELSE rs[k]]

\* socket.leave(room), line 144.
AdapterDel(rs, id, room) ==
    [k \in {x \in DOMAIN rs : rs[x] \ (IF x = room THEN {id} ELSE {}) # {}} |->
        IF k = room THEN rs[k] \ {id} ELSE rs[k]]

\* The transport leaves every room of a socket that disconnects.
AdapterDelAll(rs, id) ==
    [k \in {x \in DOMAIN rs : rs[x] \ {id} # {}} |-> rs[k] \ {id}]

\* clients.delete(id), lines 145 and 163.
MapDelete(m, id) == [k \in DOMAIN m \ {id} |-> m[k]]

\* clients.set(id, v), line 137.
MapSet(m, id, v) == [k \in DOMAIN m \cup {id} |-> IF k = id THEN v ELSE m[k]]

\* An emit to a set of sockets: one delivery for each.
Deliver(to, ev, args) == {[to |-> s, ev |-> ev, args |-> args] : s \in to}

EmptyMap == [k \in {} |-> k]

(***************************************************************************)
(* The version gate, lines 71-87.  A user-agent header is a sequence of    *)
(* characters; the regular expression of line 73 is matched as written.    *)
(***************************************************************************)
Digits == {"0", "1", "2", "3", "4", "5", "6", "7", "8", "9"}

WordChars ==
    Digits \cup {"_"} \cup
    {"a", "b", "c", "d", "e", "f", "g", "h", "i", "j", "k", "l", "m",
     "n", "o", "p", "q", "r", "s", "t", "u", "v", "w", "x", "y", "z",
     "A", "B", "C", "D", "E", "F", "G", "H", "I", "J", "K", "L", "M",
     "N", "O", "P", "Q", "R", "S", "T", "U", "V", "W", "X", "Y", "Z"}

\* const supportedVersions = new Set(['1.0.0']), line 10.
supportedVersions == {<<"1", ".", "0", ".", "0">>}

Prefix == <<"P", "e", "n", "g", "u", "i", "n", "C", "h", "a", "t", "/">>

\* The user-agent headers the clients present.
UserAgents ==
    << Prefix \o <<"1", ".", "0", ".", "0", " ", "(", "w", "i", "n", "3", "2", ")">>,
       Prefix \o <<"1", ".", "0", ".", "1", " ", "(", "w", "i", "n", "3", "2", ")">>,
       Prefix \o <<"1", ".", "0", ".", "0">>,
       <<"u", "n", "d", "e", "f", "i", "n", "e", "d">>,
       Prefix \o <<"1", ".", "0", " ", "(", "w", "i", "n", "3", "2", ")">>,
       Prefix \o <<"1", ".", "0", ".", "0", " ", "(", "w", "i", "n", "3", "2", ")", "x">>,
       <<"X", "/", "1", ".", "0", ".", "0", " ", "(", "w", "i", "n", "3", "2", ")">> >>

\* Length of the longest prefix of s[i..] made of characters of class.
RECURSIVE Run(_, _, _)
Run(s, i, class) ==
    IF i <= Len(s) /\ s[i] \in class THEN 1 + Run(s, i + 1, class) ELSE 0

\* /^PenguinChat\/(\d+\.\d+\.\d+) \((\w+)\)$/.exec(userAgent), line 73: the
\* captured version, or <<>> when the header does not match.
MatchVersion(ua) ==
    LET p  == Len(Prefix)
        d1 == Run(ua, p + 1, Digits)
        a  == p + d1 + 1
        d2 == Run(ua, a + 1, Digits)
        b  == a + d2 + 1
        d3 == Run(ua, b + 1, Digits)
        e  == b + d3 + 1
        w  == Run(ua, e + 2, WordChars)
        z  == e + 2 + w
    IN  IF /\ Len(ua) >= p /\ SubSeq(ua, 1, p) = Prefix
           /\ d1 > 0 /\ a <= Len(ua) /\ ua[a] = "."
           /\ d2 > 0 /\ b <= Len(ua) /\ ua[b] = "."
           /\ d3 > 0 /\ e + 1 <= Len(ua) /\ ua[e] = " " /\ ua[e + 1] = "("
           /\ w > 0 /\ z = Len(ua) /\ ua[z] = ")"
        THEN SubSeq(ua, p + 1, e - 1)
        ELSE <<>>

\* A slip in lines 79-85: any version that parses is let in.
VersionGateAnyVersion(ua) == MatchVersion(ua) # <<>>

\* The middleware of lines 71-87: next() without an error.
VersionGate(ua) ==
    LET version == MatchVersion(ua)
    IN  version # <<>> /\ version \in supportedVersions

\* No handler is running: the event loop is between two events.
Idle == [op |-> "idle", c |-> "", args |-> <<>>]

(***************************************************************************)
(* Initial state: no connection yet, empty registry, no room.              *)
(***************************************************************************)
Init ==
    /\ status = [c \in Conn |-> "new"]
    /\ roomId = [c \in Conn |-> JsNull]
    /\ clients = EmptyMap
    /\ rooms = EmptyMap
    /\ connectionCount = 0
    /\ sent = {}
    /\ last = Idle
    /\ registered = [c \in Tracked |-> 0]
    /\ joined = [c \in Conn |-> EmptyMap]

\* A slip in line 163: the registry entry outlives the socket.
onDisconnectKeepsEntry(c) ==
    /\ status' = [status EXCEPT ![c] = "disconnected"]
    /\ rooms' = AdapterDelAll(rooms, c)
    /\ clients' = clients
    /\ connectionCount' = connectionCount - 1

\* A slip in line 164: the counter is not decremented.
onDisconnectNoDecrement(c) ==
    /\ status' = [status EXCEPT ![c] = "disconnected"]
    /\ rooms' = AdapterDelAll(rooms, c)
    /\ clients' = MapDelete(clients, c)
    /\ connectionCount' = connectionCount

\* socket.disconnect() and the transport's close both end in the socket
\* leaving all its rooms and the handler of lines 162-166 running once.
onDisconnect(c) ==
    /\ status' = [status EXCEPT ![c] = "disconnected"]
    /\ rooms' = AdapterDelAll(rooms, c)
    /\ clients' = MapDelete(clients, c)
    /\ connectionCount' = connectionCount - 1

\* io.use + io.on('connection'), lines 71-92.
connection(c, i) ==
    /\ status[c] = "new"
    /\ last = Idle
    /\ UNCHANGED <<registered, joined>>
    /\ last' = [op |-> "connection", c |-> c, args |-> <<JsNum(i)>>]
    /\ IF VersionGate(UserAgents[i])
       THEN /\ status' = [status EXCEPT ![c] = "connected"]
            /\ rooms' = AdapterAdd(rooms, c, c)
            /\ connectionCount' = connectionCount + 1
            /\ roomId' = [roomId EXCEPT ![c] = JsNull]
            /\ sent' = {}
       ELSE /\ status' = [status EXCEPT ![c] = "rejected"]
            /\ sent' = Deliver({c}, "error", <<supportedVersions>>)
            /\ UNCHANGED <<rooms, connectionCount, roomId>>
    /\ UNCHANGED clients

\* A slip in the comparison of line 106: !== where === is meant.
spoofsMemberNegated(rs, cl, room, id) ==
    \E s \in Members(rs, room) : s \in DOMAIN cl /\ cl[s].clientId # id

\* The loop of lines 103-110: some socket of the room is registered with the
\* id the joiner sends.
spoofsMember(rs, cl, room, id) ==
    \E s \in Members(rs, room) : s \in DOMAIN cl /\ cl[s].clientId = id

\* otherClients, lines 101 and 111-112: every other socket of the room, with its
\* registry entry (undefined when it has none).
otherClients(rs, cl, room, c) ==
    [s \in Members(rs, room) \ {c} |-> IF s \in DOMAIN cl THEN cl[s] ELSE JsUndefined]

\* The argument as socket.emit serialises it (JSON): a property whose value is
\* undefined is left out.
toJSON(obj) == [k \in {x \in DOMAIN obj : obj[x] # JsUndefined} |-> obj[k]]

\* A slip in lines 116 and 138: io.to(room) in place of socket.to(room), which
\* reaches the sender as well.
broadcastToAll(rs, room, c) == Members(rs, room)

\* socket.to(room).broadcast, lines 116 and 138: every socket of the room but
\* the sender.
broadcastTo(rs, room, c) == Members(rs, room) \ {c}

\* socket.on('join'), lines 94-120.
join(c, hostName, server, room, id) ==
    /\ status[c] = "connected"
    /\ last = Idle
    /\ UNCHANGED <<registered, joined>>
    /\ last' = [op |-> "join", c |-> c, args |-> <<hostName, server, room, id>>]
    /\ IF \/ typeof(hostName) # "string" \/ typeof(server) # "string"
          \/ typeof(room) # "string" \/ typeof(id) # "number"
       THEN /\ onDisconnect(c)
            /\ sent' = {}
            /\ UNCHANGED roomId
       ELSE LET r == getRoomId(hostName.s, server.s, room.s)
            IN  /\ roomId' = [roomId EXCEPT ![c] = JsStr(r)]
                /\ IF spoofsMember(rooms, clients, r, id.n)
                   THEN /\ onDisconnect(c)
                        /\ sent' = {}
                   ELSE /\ rooms' = AdapterAdd(rooms, c, r)
                        /\ sent' = Deliver(broadcastTo(rooms', r, c), "join",
                                           <<JsStr(c), [clientId |-> id.n]>>)
                                   \cup Deliver({c}, "setClients",
                                                <<toJSON(otherClients(rooms, clients, r, c))>>)
                        /\ UNCHANGED <<status, clients, connectionCount>>

\* The check of lines 129-133 left out.
changesIdUnchecked(cl, c, clientId) == FALSE

\* A slip in the comparison of line 129: > where !== is meant.
changesIdGreater(cl, c, clientId) == c \in DOMAIN cl /\ cl[c].clientId > clientId

\* Lines 128-129: the socket is registered with another clientId.
changesId(cl, c, clientId) == c \in DOMAIN cl /\ cl[c].clientId # clientId

\* The room name socket.to(roomId) looks up: a null roomId names no room.
RoomKey(v) == IF typeof(v) = "string" THEN v.s ELSE "null"

\* socket.on('id'), lines 122-139.
id(c, clientId) ==
    /\ status[c] = "connected"
    /\ last = Idle
    /\ UNCHANGED <<registered, joined>>
    /\ last' = [op |-> "id", c |-> c, args |-> <<clientId>>]
    /\ UNCHANGED roomId
    /\ IF typeof(clientId) # "number"
       THEN onDisconnect(c) /\ sent' = {}
       ELSE IF changesId(clients, c, clientId.n)
       THEN onDisconnect(c) /\ sent' = {}
       ELSE /\ clients' = MapSet(clients, c, [clientId |-> clientId.n])
            /\ sent' = Deliver(broadcastTo(rooms, RoomKey(roomId[c]), c), "setClient",
                               <<JsStr(c), [clientId |-> clientId.n]>>)
            /\ UNCHANGED <<status, rooms, connectionCount>>

\* A leave without line 145: the registry entry is kept.
leaveKeepsEntry(c) ==
    /\ status[c] = "connected"
    /\ last = Idle
    /\ UNCHANGED <<registered, joined>>
    /\ last' = [op |-> "leave", c |-> c, args |-> <<>>]
    /\ sent' = {}
    /\ IF Truthy(roomId[c])
       THEN rooms' = AdapterDel(rooms, c, roomId[c].s)
       ELSE UNCHANGED rooms
    /\ UNCHANGED <<status, roomId, connectionCount, clients>>

\* socket.on('leave'), lines 142-147.
leave(c) ==
    /\ status[c] = "connected"
    /\ last = Idle
    /\ UNCHANGED <<registered, joined>>
    /\ last' = [op |-> "leave", c |-> c, args |-> <<>>]
    /\ sent' = {}
    /\ IF Truthy(roomId[c])
       THEN /\ rooms' = AdapterDel(rooms, c, roomId[c].s)
            /\ clients' = MapDelete(clients, c)
       ELSE UNCHANGED <<rooms, clients>>
    /\ UNCHANGED <<status, roomId, connectionCount>>

\* Line 150: typeof null is 'object', so !signal.data reads a property of
\* null and throws a TypeError.
throws(signal) == typeof(signal) = "object" /\ "null" \in DOMAIN signal

\* The exception is caught nowhere: the process exits, and with it the
\* registry, the rooms, the counter and every connection.
crash ==
    /\ status' = [x \in Conn |-> IF status[x] = "connected" THEN "disconnected" ELSE status[x]]
    /\ rooms' = EmptyMap
    /\ clients' = EmptyMap
    /\ connectionCount' = 0

\* A slip in lines 156-159: the payload is relayed with a from field of its
\* own when it has one.
relayedAsSent(c, signal) ==
    [data |-> signal.data,
     from |-> IF "from" \in DOMAIN signal THEN signal.from.s ELSE c]

\* Lines 155-159: the relayed payload.
relayed(c, signal) == [data |-> signal.data, from |-> c]

\* Line 150: the payload is rejected.
badSignal(signal) ==
    \/ typeof(signal) # "object"
    \/ ~Truthy(signal.data)
    \/ ~Truthy(signal.to)
    \/ typeof(signal.to) # "string"

\* socket.on('signal'), lines 149-160: io.to(to) reaches every socket of the
\* room named to (each socket is alone in the room named by its own id).
signal(c, sig) ==
    /\ status[c] = "connected"
    /\ last = Idle
    /\ UNCHANGED <<registered, joined>>
    /\ last' = [op |-> "signal", c |-> c, args |-> <<sig>>]
    /\ UNCHANGED roomId
    /\ IF throws(sig)
       THEN crash /\ sent' = {}
       ELSE IF badSignal(sig)
       THEN onDisconnect(c) /\ sent' = {}
       ELSE /\ sent' = Deliver(Members(rooms, sig.to.s), "signal", <<relayed(c, sig)>>)
            /\ UNCHANGED <<status, rooms, clients, connectionCount>>

\* The transport closes the connection: socket.on('disconnect'), lines 162-166.
disconnect(c) ==
    /\ status[c] = "connected"
    /\ last = Idle
    /\ UNCHANGED <<registered, joined>>
    /\ last' = [op |-> "disconnect", c |-> c, args |-> <<>>]
    /\ onDisconnect(c)
    /\ sent' = {}
    /\ UNCHANGED roomId

\* The handler returns and the transport writes its packets out: node runs
\* one handler at a time, to completion, before it takes the next event.  A
\* handler that threw never returns.
returned ==
    /\ last # Idle
    /\ ~(last.op = "signal" /\ throws(last.args[1]))
    /\ last' = Idle
    /\ sent' = {}
    /\ UNCHANGED <<status, roomId, clients, rooms, connectionCount>>

flush == returned /\ UNCHANGED <<registered, joined>>

Handlers ==
    \/ \E c \in Conn, i \in 1..Len(UserAgents) : connection(c, i)
    \/ \E c \in Conn, a \in JoinInputs : join(c, a[1], a[2], a[3], a[4])
    \/ \E c \in Conn, n \in IdInputs : id(c, n)
    \/ \E c \in Conn : leave(c)
    \/ \E c \in Conn, s \in SignalInputs : signal(c, s)
    \/ \E c \in Conn : disconnect(c)

Next == Handlers \/ flush

Spec == Init /\ [][Next]_vars

(***************************************************************************)
(* The same program with a history variable brought up to date each time   *)
(* a handler returns.                                                      *)
(***************************************************************************)
\* registered: the clientId line 137 stored last for the socket since it
\* connected, kept when leave deletes the entry (0 while it has stored none,
\* and once it has disconnected).
flushRegistered ==
    /\ returned
    /\ registered' = [c \in Tracked |->
            IF status[c] # "connected" THEN 0
            ELSE IF c \in DOMAIN clients THEN clients[c].clientId
            ELSE registered[c]]
    /\ UNCHANGED joined

NextRegistered == Handlers \/ flushRegistered

SpecRegistered == Init /\ [][NextRegistered]_vars

\* joined: for each derived room a socket is in, the id of its latest join to
\* it (the clientId line 117 announces).
flushJoined ==
    /\ returned
    /\ joined' = [c \in Conn |->
            [r \in {x \in RoomIds : c \in Members(rooms, x)} |->
                IF /\ last.op = "join" /\ last.c = c
                   /\ status[c] = "connected" /\ roomId[c] = JsStr(r)
                THEN last.args[4].n
                ELSE joined[c][r]]]
    /\ UNCHANGED registered

NextJoined == Handlers \/ flushJoined

SpecJoined == Init /\ [][NextJoined]_vars

(***************************************************************************)
(* Vocabulary of the properties.                                           *)
(***************************************************************************)
Live == {c \in Conn : status[c] = "connected"}

\* The handler run in progress is a join whose four arguments are well typed.
WellTypedJoin(l) ==
    /\ l.op = "join"
    /\ l.args[1].t = "string" /\ l.args[2].t = "string"
    /\ l.args[3].t = "string" /\ l.args[4].t = "number"

\* The room a well-typed join names, and the id it carries.
JoinRoom(l) == getRoomId(l.args[1].s, l.args[2].s, l.args[3].s)

JoinId(l) == l.args[4].n

\* The deliveries of event ev among a set of deliveries.
Of(ev, deliveries) == {m \in deliveries : m.ev = ev}

\* The derived rooms a socket is a member of.
RoomsOf(c) == {r \in RoomIds : c \in Members(rooms, r)}

(***************************************************************************)
(* C1: in every reachable state no two distinct live connections that are  *)
(* members of the same room hold the same registered clientId.             *)
(* The id handler stores whatever a socket sends without looking at the    *)
(* other members of its room, so TLC finds this violated.                  *)
(***************************************************************************)
C1_NoSharedClientId ==
    \A r \in RoomIds : \A a, b \in Members(rooms, r) :
        (a # b /\ a \in Live /\ b \in Live /\ a \in DOMAIN clients /\ b \in DOMAIN clients)
            => clients[a].clientId # clients[b].clientId

(***************************************************************************)
(* C2: a well-typed join by X whose id equals the registered clientId of   *)
(* another member of the derived room disconnects X, leaves X outside the  *)
(* room (a disconnected socket is in no room, so it is never added), emits *)
(* no join notification and sends X no setClients.                         *)
(***************************************************************************)
C2_SpoofedJoinRejected ==
    [][\A x \in Conn :
        /\ ( /\ WellTypedJoin(last') /\ last'.c = x
             /\ \E s \in Members(rooms, JoinRoom(last')) \ {x} :
                    s \in DOMAIN clients /\ clients[s].clientId = JoinId(last') )
           => /\ status'[x] = "disconnected"
              /\ x \notin Members(rooms', JoinRoom(last'))
              /\ Of("join", sent') = {}
              /\ {m \in Of("setClients", sent') : m.to = x} = {}
        /\ (status[x] = "disconnected" => \A r \in DOMAIN rooms' : x \notin rooms'[r])
      ]_vars

\* A join has just been refused although well typed, and another member of
\* the room it names holds the id it carried.
C2_Witness ==
    /\ WellTypedJoin(last)
    /\ status[last.c] = "disconnected"
    /\ \E s \in Members(rooms, JoinRoom(last)) \ {last.c} :
            s \in DOMAIN clients /\ clients[s].clientId = JoinId(last)

(***************************************************************************)
(* C3: the id a connection supplies in a successful join counts as held by *)
(* it in that room: while A is a member of R and its latest join to R      *)
(* carried id n, a join to R with id n by another connection is rejected:  *)
(* the joiner is disconnected, no join notification is emitted and the     *)
(* other members of R are unchanged, whether or not A has sent an id.      *)
(* The join handler never stores the id it receives, so TLC finds this     *)
(* violated.                                                               *)
(***************************************************************************)
C3_JoinIdHeld ==
    [][\A x \in Conn :
        ( /\ WellTypedJoin(last') /\ last'.c = x
          /\ \E a \in Members(rooms, JoinRoom(last')) \ {x} :
                /\ JoinRoom(last') \in DOMAIN joined[a]
                /\ joined[a][JoinRoom(last')] = JoinId(last') )
        => /\ status'[x] = "disconnected"
           /\ Of("join", sent') = {}
           /\ Members(rooms', JoinRoom(last')) = Members(rooms, JoinRoom(last')) \ {x}
      ]_vars

(***************************************************************************)
(* C4: in every reachable state each connection is a member of at most one *)
(* derived room.  A join to a second room does not leave the first, so TLC *)
(* finds this violated.                                                    *)
(***************************************************************************)
C4_AtMostOneRoom == \A c \in Conn : Cardinality(RoomsOf(c)) <= 1

(***************************************************************************)
(* C5: in every reachable state, for every live connection c and every     *)
(* derived room id r, c is a member of r if and only if the roomId         *)
(* recorded for c is r.  leave does not clear roomId and join does not     *)
(* leave the previous room, so TLC finds this violated.                    *)
(***************************************************************************)
C5_MembershipMatchesRoomId ==
    \A c \in Live : \A r \in RoomIds :
        c \in Members(rooms, r) <=> roomId[c] = JsStr(r)

C7_ChangedIdRejected ==
    [][\A c \in Conn :
        /\ ( /\ last'.op = "id" /\ last'.c = c /\ last'.args[1].t = "number"
             /\ c \in DOMAIN clients /\ clients[c].clientId # last'.args[1].n )
           => /\ status'[c] = "disconnected"
              /\ (c \in DOMAIN clients' => clients'[c] = clients[c])
              /\ Of("setClient", sent') = {}
        /\ (status[c] = "disconnected" => c \notin DOMAIN clients')
      ]_vars

\* A well-typed id has just been refused: the sender is disconnected (a
\* well-typed id is refused only for changing a registered clientId).
C7_Witness ==
    /\ last.op = "id" /\ last.args[1].t = "number"
    /\ status[last.c] = "disconnected"
    /\ last.c \notin DOMAIN clients
    /\ sent = {}

(***************************************************************************)
(* Well-formed signals, in the words of the protocol: an object with a     *)
(* non-empty data and a non-empty string to.                               *)
(***************************************************************************)
WellFormedSignal(l) ==
    /\ l.op = "signal"
    /\ l.args[1].t = "object" /\ "to" \in DOMAIN l.args[1]
    /\ l.args[1].to.t = "string" /\ l.args[1].to.s # ""
    /\ l.args[1].data.t = "string" /\ l.args[1].data.s # ""

SignalTo(l) == l.args[1].to.s

(***************************************************************************)
(* C8: a well-formed signal is delivered to at most one connection, the    *)
(* live connection whose identifier equals to, and to no other, whatever   *)
(* string to is.  io.to(to) addresses a room, and a derived room id names  *)
(* the room of all its members, so TLC finds this violated.                *)
(***************************************************************************)
C8_SignalUnicast ==
    WellFormedSignal(last) =>
        /\ Cardinality(Of("signal", sent)) <= 1
        /\ \A m \in Of("signal", sent) : m.to = SignalTo(last) /\ m.to \in Live

(***************************************************************************)
(* C9: a well-formed signal whose to is not the identifier of a live       *)
(* connection delivers nothing to anyone, sends the sender no error, keeps *)
(* the sender connected and leaves the registry and every room unchanged.  *)
(* A to that is the id of a room with members is delivered to them (the    *)
(* defect of C8), so TLC finds this violated.                              *)
(***************************************************************************)
C9_UnknownTargetDropped ==
    [][\A a \in Conn :
        (WellFormedSignal(last') /\ last'.c = a /\ SignalTo(last') \notin Live)
        => /\ sent' = {}
           /\ status'[a] = "connected"
           /\ clients' = clients
           /\ rooms' = rooms
      ]_vars

(***************************************************************************)
(* C10: a successful join of B to R sends B exactly one setClients, whose  *)
(* keys are exactly the members of R other than B at the time of the join, *)
(* each member A whose latest join to R carried id n being reported as     *)
(* {clientId: n}; the first joiner of an empty room receives an empty map. *)
(* A member is reported with its registry entry, which join never writes,  *)
(* so TLC finds this violated.                                             *)
(***************************************************************************)
C10_SetClientsReportsMembers ==
    [][\A b \in Conn :
        (WellTypedJoin(last') /\ last'.c = b /\ status'[b] = "connected")
        => LET r == JoinRoom(last')
               replies == {m \in Of("setClients", sent') : m.to = b}
           IN  /\ Cardinality(replies) = 1
               /\ Of("setClients", sent') = replies
               /\ \A m \in replies :
                    /\ DOMAIN m.args[1] = Members(rooms, r) \ {b}
                    /\ \A a \in Members(rooms, r) \ {b} :
                          r \in DOMAIN joined[a]
                             => m.args[1][a] = [clientId |-> joined[a][r]]
      ]_vars

(***************************************************************************)
(* C11: a step that disconnects c, by the transport closing or by the      *)
(* server terminating it, from whatever state c was in, leaves c in no     *)
(* room and without a registry entry; the cleanup happens once: from then  *)
(* on c stays disconnected, stays out of every room and of the registry,   *)
(* and no handler runs for it again.                                       *)
(***************************************************************************)
C11_DisconnectCleansUp ==
    [][\A c \in Conn :
        /\ (status[c] = "connected" /\ status'[c] = "disconnected")
           => /\ \A r \in DOMAIN rooms' : c \notin rooms'[r]
              /\ c \notin DOMAIN clients'
        /\ status[c] = "disconnected"
           => /\ status'[c] = "disconnected"
              /\ \A r \in DOMAIN rooms' : c \notin rooms'[r]
              /\ c \notin DOMAIN clients'
              /\ (last = Idle => last'.c # c)
      ]_vars

\* A socket that was registered, and whose roomId was set, has been terminated
\* by the id handler; another has closed on its own.
C11_Witness ==
    \/ /\ last.op = "id" /\ typeof(last.args[1]) = "number"
       /\ status[last.c] = "disconnected" /\ roomId[last.c] # JsNull
    \/ /\ last.op = "disconnect" /\ roomId[last.c] # JsNull
       /\ \E d \in Conn \ {last.c} : status[d] = "disconnected"

\* The handler run in progress was given a malformed command: a join with a
\* non-string name or a non-number id, an id with a non-number, a signal that
\* lacks a non-empty data or a string to.
Malformed(l) ==
    \/ l.op = "join" /\ ~WellTypedJoin(l)
    \/ l.op = "id" /\ typeof(l.args[1]) # "number"
    \/ l.op = "signal" /\ (throws(l.args[1]) \/ badSignal(l.args[1]))

(***************************************************************************)
(* C12: a malformed command disconnects its sender and nothing else: it    *)
(* emits nothing, and every other connection keeps its liveness, its       *)
(* registry entry and its room memberships.                                *)
(* A signal whose payload is null passes typeof signal !== 'object' and    *)
(* throws at !signal.data: the process exits and every connection is lost, *)
(* so TLC finds this violated.                                             *)
(***************************************************************************)
C12_MalformedDisconnectsOnlySender ==
    [][(last = Idle /\ Malformed(last'))
        => /\ status'[last'.c] = "disconnected"
           /\ sent' = {}
           /\ \A y \in Conn \ {last'.c} :
                /\ status'[y] = status[y]
                /\ (y \in DOMAIN clients') = (y \in DOMAIN clients)
                /\ (y \in DOMAIN clients => clients'[y] = clients[y])
                /\ \A r \in DOMAIN rooms \cup DOMAIN rooms' :
                      (y \in Members(rooms', r)) = (y \in Members(rooms, r))
      ]_vars

\* The header reads PenguinChat/<major>.<minor>.<patch> (<platform>): the
\* pattern of line 73 said with the positions of its separators, a and b the
\* two dots and e the space.
MatchesPattern(ua, a, b, e) ==
    LET p == Len(Prefix)
        n == Len(ua)
    IN  /\ n > p /\ SubSeq(ua, 1, p) = Prefix
        /\ p + 1 < a /\ a + 1 < b /\ b + 1 < e /\ e + 2 < n
        /\ ua[a] = "." /\ ua[b] = "." /\ ua[e] = " " /\ ua[e + 1] = "(" /\ ua[n] = ")"
        /\ \A k \in (p + 1)..(e - 1) : k \notin {a, b} => ua[k] \in Digits
        /\ \A k \in (e + 2)..(n - 1) : ua[k] \in WordChars

\* The header matches the pattern and names a supported version.
Acceptable(ua) ==
    \E a \in 1..Len(ua) : ua[a] = "." /\
        \E b \in (a + 1)..Len(ua) : ua[b] = "." /\
            \E e \in (b + 1)..Len(ua) :
                /\ MatchesPattern(ua, a, b, e)
                /\ SubSeq(ua, Len(Prefix) + 1, e - 1) \in supportedVersions

(***************************************************************************)
(* C13: a connection is accepted exactly when its user-agent header        *)
(* matches the pattern and its version is supported.  A rejected one is    *)
(* not counted, creates no registry entry and no room, never becomes       *)
(* connected, and no handler ever runs for it.                             *)
(***************************************************************************)
C13_AcceptedIffSupported ==
    [][\A c \in Conn :
        /\ (status[c] = "new" /\ status'[c] # "new")
           => /\ last'.op = "connection" /\ last'.c = c
              /\ (status'[c] = "connected") = Acceptable(UserAgents[last'.args[1].n])
              /\ status'[c] # "connected"
                 => /\ status'[c] = "rejected"
                    /\ connectionCount' = connectionCount
                    /\ clients' = clients /\ rooms' = rooms
        /\ status[c] = "rejected"
           => /\ status'[c] = "rejected"
              /\ c \notin DOMAIN clients' /\ \A r \in DOMAIN rooms' : c \notin rooms'[r]
              /\ (last = Idle => last'.c # c)
        /\ status'[c] = "connected" => status[c] \in {"new", "connected"}
      ]_vars

\* A well-formed header with an unsupported version has been turned away while
\* another connection is in.
C13_Witness ==
    /\ last.op = "connection" /\ status[last.c] = "rejected"
    /\ LET ua == UserAgents[last.args[1].n]
       IN  \E a \in 1..Len(ua) : ua[a] = "." /\
               \E b \in (a + 1)..Len(ua) : ua[b] = "." /\
                   \E e \in (b + 1)..Len(ua) : MatchesPattern(ua, a, b, e)
    /\ \E d \in Conn : status[d] = "connected"

(***************************************************************************)
(* C14: a successful join of X to room R with id n delivers                *)
(* 'join'(X, {clientId: n}) to exactly the connections that are members of *)
(* R, X apart, when X is added: not to X, not to a connection that left R  *)
(* or disconnected, not to one that is only in another room.               *)
(***************************************************************************)
C14_JoinNotifiesOtherMembers ==
    [][(last = Idle /\ WellTypedJoin(last') /\ status'[last'.c] = "connected")
        => LET x == last'.c
               R == JoinRoom(last')
           IN  /\ {m.to : m \in Of("join", sent')}
                    = {y \in Conn \ {x} : status[y] = "connected" /\ R \in RoomsOf(y)}
               /\ \A m \in Of("join", sent') :
                     m.args = <<JsStr(x), [clientId |-> JoinId(last')]>>
               /\ x \in Members(rooms', R)
      ]_vars

\* A join has been announced to a member of the room.
C14_Witness ==
    /\ WellTypedJoin(last) /\ status[last.c] = "connected"
    /\ \E m \in Of("join", sent) : m.to # last.c /\ JoinRoom(last) \in RoomsOf(m.to)

\* The handler run in progress is an id with a number that was accepted.
AcceptedId(l) ==
    /\ l.op = "id" /\ typeof(l.args[1]) = "number"
    /\ status[l.c] = "connected"

(***************************************************************************)
(* C15: a successful id(n) by X delivers 'setClient'(X, {clientId: n}) to  *)
(* exactly the other members of the room X is a member of, and to nobody   *)
(* when X is a member of no room, having never joined or having left.      *)
(* leave does not reset roomId, so an id sent after a leave still reaches  *)
(* the room that was left: TLC finds this violated.                        *)
(***************************************************************************)
C15_SetClientToCurrentRoom ==
    AcceptedId(last)
        => /\ RoomsOf(last.c) = {} => Of("setClient", sent) = {}
           /\ \A r \in RoomIds :
                 RoomsOf(last.c) = {r}
                    => {m.to : m \in Of("setClient", sent)} = Members(rooms, r) \ {last.c}
           /\ \A m \in Of("setClient", sent) :
                 m.args = <<JsStr(last.c), [clientId |-> last.args[1].n]>>

\* The step is a leave handler starting.
LeaveStep == last = Idle /\ last'.op = "leave"

C17_LeaveOutsideRoomIsNoOp ==
    [][(LeaveStep /\ RoomsOf(last'.c) = {})
        => /\ clients' = clients
           /\ rooms' = rooms
           /\ status' = status
           /\ sent' = {}
      ]_vars

(***************************************************************************)
(* C18: a well-typed join by X is terminated only if a connection other    *)
(* than X, member of the target room, is registered with the join id; the  *)
(* clientId X registered itself never gets X's join rejected.              *)
(* The loop of lines 103-110 goes over every socket of the room, X         *)
(* included, and tests s !== socket.id only after the comparison, so a     *)
(* registered member that joins its room again with its own id is          *)
(* terminated: TLC finds this violated.                                    *)
(***************************************************************************)
C18_OwnIdNeverSpoofs ==
    [][(last = Idle /\ WellTypedJoin(last') /\ status'[last'.c] = "disconnected")
        => \E s \in Members(rooms, JoinRoom(last')) \ {last'.c} :
              s \in DOMAIN clients /\ clients[s].clientId = JoinId(last')
      ]_vars

(***************************************************************************)
(* C19: every delivered 'signal' carries as from the id of the connection  *)
(* that sent it and as data the data it sent, and nothing else, whatever   *)
(* the payload holds; no other handler delivers a 'signal'.                *)
(***************************************************************************)
C19_SignalFromIsSender ==
    \A m \in Of("signal", sent) :
        /\ last.op = "signal"
        /\ Len(m.args) = 1
        /\ DOMAIN m.args[1] = {"data", "from"}
        /\ m.args[1].from = last.c
        /\ m.args[1].data = last.args[1].data

\* A signal whose payload names another connection as from has been relayed.
C19_Witness ==
    /\ last.op = "signal"
    /\ Of("signal", sent) # {}
    /\ "from" \in DOMAIN last.args[1]
    /\ last.args[1].from # JsStr(last.c)

(***************************************************************************)
(* C20: in every reachable state connectionCount is the number of accepted *)
(* connections that have not disconnected, hence never negative: an        *)
(* accepted connection adds one, a disconnect, whether the transport       *)
(* closed or the server terminated the socket, takes one away.             *)
(***************************************************************************)
C20_CountIsLive ==
    /\ connectionCount = Cardinality(Live)
    /\ connectionCount >= 0

\* Two connections were accepted and the server has terminated one of them.
C20_Witness ==
    /\ last.op \in {"join", "id", "signal"}
    /\ status[last.c] = "disconnected"
    /\ connectionCount = 1

=============================================================================
